---- MODULE Spec2Model ----
(***************************************************************************)
(* Model of src/app.js: the particle morph core (ParticleSystem), the      *)
(* gesture normaliser (GestureDetector) and the driver (App).              *)
(*                                                                         *)
(* Numbers.  Clock readings are whole multiples of a time unit (0.375 s).   *)
(* A 3D position is kept as the term that produced it: the generator, the  *)
(* index, the total and the Math.random draws of the call (a seed names    *)
(* the draws of one call).  Gesture scalars are fixed-point integers, One  *)
(* standing for 1.0.                                                       *)
(***************************************************************************)
EXTENDS Integers, Sequences, FiniteSets, TLC

\* ------------------------------------------------------------------ bounds

\* CONFIG.particleCount (30000 in the program), scaled down: the capacity N.
particleCount == 3

\* Handler invocations explored from the constructed application.
MaxOps == 3

\* Last clock reading explored, in time units.
MaxTime == 6

\* ------------------------------------------------------------ CONFIG

\* CONFIG.morphSpeed: 1.5 s, in time units of 0.375 s.
morphSpeed == 4

Min(a, b) == IF a < b THEN a ELSE b
Max(a, b) == IF a > b THEN a ELSE b

\* ---------------------------------------------------------- pattern catalog

\* Object.keys(PATTERNS), restricted to three of the registered generators:
\* two that are pure functions of (i, total) and one that draws Math.random.
PATTERN_LIST == {"sphere", "cube", "heart"}

\* Generators whose body calls Math.random.
RandomPatterns == {"heart"}

\* Properties PATTERNS inherits from Object.prototype: PATTERNS[name] is a
\* function for these, although they are no keys of the catalog.
ObjectPrototype == {"constructor", "toString"}

\* Names a caller may pass: registered, inherited, and absent.
PatternNames == PATTERN_LIST \cup ObjectPrototype \cup {"nosuch"}

\* The outcomes of the Math.random draws of one call: two, so that two calls
\* may draw the same or differently.  The draws of createParticles are 0.
Seeds == {0, 1}

Indices == 0..(particleCount - 1)

\* An entry of a freshly allocated Float32Array: (0, 0, 0).
ZeroPoint == [gen |-> "zero", i |-> 0, total |-> 0, seed |-> 0]

\* (NaN, NaN, NaN): what storing pos.x, pos.y, pos.z of a value without these
\* properties leaves in a Float32Array.
NaNPoint == [gen |-> "NaN", i |-> 0, total |-> 0, seed |-> 0]

\* The point PATTERNS[name](i, total) returns; seed names the Math.random
\* draws of the call, which only the random generators read.
PatternPoint(name, i, total, seed) ==
    [gen |-> name, i |-> i, total |-> total,
     seed |-> IF name \in RandomPatterns THEN seed ELSE 0]

\* A generator that reads Math.random whatever the pattern.
MutPatternFnDraws(name, i, total, seed) ==
    IF name \in PATTERN_LIST
    THEN [gen |-> name, i |-> i, total |-> total, seed |-> seed]
    ELSE NaNPoint

\* The lookup PATTERNS[patternName] followed by the call patternFn(i, total):
\* an own key runs its generator, an inherited name runs the Object.prototype
\* function, whose result has no x, y, z.
patternFn(name, i, total, seed) ==
    IF name \in PATTERN_LIST THEN PatternPoint(name, i, total, seed)
    ELSE NaNPoint

\* The guard of setPattern: PATTERNS[patternName] is truthy.
Truthy(name) == name \in PATTERN_LIST \cup ObjectPrototype

\* ------------------------------------------------------- gesture numbers

\* Detection callbacks explored (each performs one smoothing step).
MaxCallbacks == 3

\* Readings of Date.now() explored after the start, in units of 100 ms.
MaxElapsed == 7

\* Further callbacks explored while the detector's report stays the same.
MaxHeld == 80

RECURSIVE Pow10(_)
Pow10(k) == IF k = 0 THEN 1 ELSE 10 * Pow10(k - 1)

\* Landmark-derived inputs are whole thousandths; a smoothed value after k
\* callbacks is a whole multiple of 1/(1000 * 10^k), so this One makes every
\* smoothing step of the explored callbacks exact.
Step == Pow10(MaxCallbacks)
One == 1000 * Step
Half == One \div 2

\* CONFIG.gestureSmoothing = 0.1 = 1 / gestureSmoothingInv.
gestureSmoothingInv == 10

\* CONFIG.dispersionMultiplier.
dispersionMultiplier == 4

\* The factor of handsDistance in the zoom uniform.
zoomScale == 4

\* ------------------------------------------------------------------- state

VARIABLES
    clock,            \* performance.now() * 0.001, in time units
    ops,              \* handler invocations so far
    lastCall,         \* the latest handler invocation and its arguments
    count,            \* ParticleSystem.count
    currentPattern,   \* ParticleSystem.currentPattern
    morphStartTime,   \* ParticleSystem.morphStartTime
    sourcePositions,  \* attribute sourcePosition, one point per particle
    targetPositions,  \* attribute targetPosition, one point per particle
    randomValues,     \* attribute randomValue
    colors,           \* attribute color
    sizes,            \* attribute size
    baseColor,        \* CONFIG.baseColor
    particleSize,     \* CONFIG.particleSize
    uniforms,         \* material.uniforms: time, morphFactor, dispersion, pinch, zoom
    gd,               \* the GestureDetector's fields
    callbacks,        \* detection callbacks so far
    task,             \* the setPattern call on the stack and the loop it has reached
    committed,        \* the morph state as the last completed setPattern left it
    torn,             \* whether a frame has read a morph state other than committed
    gestureText,      \* textContent of the element 'gesture-text'
    dateNow,          \* Date.now(), in units of 100 ms
    lastSwipeTime,    \* the swipe poll's lastSwipeTime, in the same units
    activeButtons,    \* indices of the pattern buttons of class 'active'
    evaluation,       \* what a generator returned over one buffer
    swipes,           \* swipes emitted, and pattern changes the poll made of them
    run,              \* the consumed swipes of one direction in a row
    lattice           \* the cells the cube generator returned over one buffer

particleVars == <<count, currentPattern, morphStartTime, sourcePositions,
                  targetPositions, randomValues, colors, sizes, baseColor,
                  particleSize>>

morphVars == <<currentPattern, morphStartTime, sourcePositions, targetPositions>>

taskVars == <<task, committed, torn>>

pollVars == <<dateNow, lastSwipeTime, activeButtons>>

driverVars == <<gestureText, pollVars>>

recordVars == <<evaluation, swipes, run, lattice>>

vars == <<clock, ops, lastCall, particleVars, uniforms, gd, callbacks, taskVars,
          driverVars, recordVars>>

\* --------------------------------------------------------- the page

\* The text of 'gesture-text' before the first callback: the page's markup
\* sets it, the script never reads it.
MarkupText == "markup"

\* Date.now() when the application starts, in units of 100 ms: any reading
\* of a clock that counts from 1970 is beyond the debounce interval.
StartDate == 10

\* --------------------------------------------------------- ParticleSystem

\* createParticles: zeroed position buffers, one triple of draws per particle,
\* the base colour and a size drawn around CONFIG.particleSize.
InitialColor == "#00d4ff"
InitialSize == 12

\* A copy loop that leaves the source buffer as it was.
MutCopyKeepsSource(src, tgt) == src

\* The copy loop of setPattern: every entry of the target buffer, whatever
\* count is, goes to the source buffer.
CopyTargets(src, tgt) == [i \in Indices |-> tgt[i]]

\* A generate loop that runs over the whole buffer.
MutGenerateWholeBuffer(tgt, name, n, seed) ==
    [i \in Indices |-> patternFn(name, i, n, seed)]

\* The generate loop of setPattern: indices below count get the generator's
\* point for (i, count); the others keep what they held.
GenerateTargets(tgt, name, n, seed) ==
    [i \in Indices |-> IF i < n THEN patternFn(name, i, n, seed) ELSE tgt[i]]

\* performance.now() * 0.001 read at the end of setPattern.
StartStamp(now, old) == now

Called(op, name, n) == lastCall' = [op |-> op, name |-> name, n |-> n]

setPattern(patternName, seed) ==
    /\ ops < MaxOps
    /\ ops' = ops + 1
    /\ Called("setPattern", patternName, 0)
    /\ IF ~Truthy(patternName)
       THEN UNCHANGED particleVars
       ELSE /\ currentPattern' = patternName
            /\ sourcePositions' = CopyTargets(sourcePositions, targetPositions)
            /\ targetPositions' =
                   GenerateTargets(targetPositions, patternName, count, seed)
            /\ morphStartTime' = StartStamp(clock, morphStartTime)
            /\ UNCHANGED <<count, randomValues, colors, sizes, baseColor,
                           particleSize>>
    /\ UNCHANGED recordVars
    /\ UNCHANGED <<clock, uniforms, gd, callbacks, taskVars, driverVars>>

\* A colour of the picker or of a preset, other than the initial one.
Colors == {"#ff006e"}

\* A setColor that also restarts the morph from the colour change.
MutSetColorRestartsMorph(color, seed) ==
    /\ ops < MaxOps
    /\ ops' = ops + 1
    /\ Called("setColor", color, 0)
    /\ baseColor' = color
    /\ colors' = [i \in Indices |->
                     IF i < count THEN [base |-> color, seed |-> seed]
                     ELSE colors[i]]
    /\ morphStartTime' = clock
    /\ UNCHANGED <<count, currentPattern, sourcePositions, targetPositions,
                   randomValues, sizes, particleSize>>
    /\ UNCHANGED recordVars
    /\ UNCHANGED <<clock, uniforms, gd, callbacks, taskVars, driverVars>>

setColor(color, seed) ==
    /\ ops < MaxOps
    /\ ops' = ops + 1
    /\ Called("setColor", color, 0)
    /\ baseColor' = color
    /\ colors' = [i \in Indices |->
                     IF i < count THEN [base |-> color, seed |-> seed]
                     ELSE colors[i]]
    /\ UNCHANGED <<count, morphVars, randomValues, sizes, particleSize>>
    /\ UNCHANGED recordVars
    /\ UNCHANGED <<clock, uniforms, gd, callbacks, taskVars, driverVars>>

\* A slider value of the particle size, in tenths.
Sizes == {20}

\* A setParticleSize that draws the random values again as well.
MutSetParticleSizeRedraws(size, seed) ==
    /\ ops < MaxOps
    /\ ops' = ops + 1
    /\ Called("setParticleSize", "", size)
    /\ particleSize' = size
    /\ sizes' = [i \in Indices |->
                    IF i < count THEN [base |-> size, seed |-> seed]
                    ELSE sizes[i]]
    /\ randomValues' = [i \in Indices |->
                           IF i < count THEN [i |-> i, seed |-> seed + 1]
                           ELSE randomValues[i]]
    /\ UNCHANGED <<count, morphVars, colors, baseColor>>
    /\ UNCHANGED recordVars
    /\ UNCHANGED <<clock, uniforms, gd, callbacks, taskVars, driverVars>>

setParticleSize(size, seed) ==
    /\ ops < MaxOps
    /\ ops' = ops + 1
    /\ Called("setParticleSize", "", size)
    /\ particleSize' = size
    /\ sizes' = [i \in Indices |->
                    IF i < count THEN [base |-> size, seed |-> seed]
                    ELSE sizes[i]]
    /\ UNCHANGED <<count, morphVars, randomValues, colors, baseColor>>
    /\ UNCHANGED recordVars
    /\ UNCHANGED <<clock, uniforms, gd, callbacks, taskVars, driverVars>>

\* Slider values of the particle count: from none to above the capacity.
Counts == 0..(particleCount + 1)

\* An updateParticleCount without the Math.min.
MutUpdateParticleCountUnclamped(newCount) ==
    /\ ops < MaxOps
    /\ ops' = ops + 1
    /\ Called("updateParticleCount", "", newCount)
    /\ count' = newCount
    /\ UNCHANGED <<morphVars, randomValues, colors, sizes, baseColor,
                   particleSize>>
    /\ UNCHANGED recordVars
    /\ UNCHANGED <<clock, uniforms, gd, callbacks, taskVars, driverVars>>

updateParticleCount(newCount) ==
    /\ ops < MaxOps
    /\ ops' = ops + 1
    /\ Called("updateParticleCount", "", newCount)
    /\ count' = Min(newCount, particleCount)
    /\ UNCHANGED <<morphVars, randomValues, colors, sizes, baseColor,
                   particleSize>>
    /\ UNCHANGED recordVars
    /\ UNCHANGED <<clock, uniforms, gd, callbacks, taskVars, driverVars>>

\* elapsed / CONFIG.morphSpeed without the Math.min.
MutMorphFactorUnclamped(elapsed) == elapsed

\* The fractional part of elapsed / CONFIG.morphSpeed: a morph that restarts.
MutMorphFactorWraps(elapsed) == elapsed % morphSpeed

\* Math.min(1.0, elapsed / CONFIG.morphSpeed), in units of 1/morphSpeed.
MorphFactor(elapsed) == Min(morphSpeed, elapsed)

\* getGestureState: the fields update reads.
getGestureState ==
    [openness |-> gd.handOpenness, rotation |-> gd.handRotation,
     position |-> gd.handPosition, pinch |-> gd.pinchStrength,
     present |-> gd.handPresent, swipe |-> gd.swipeDirection,
     twoHands |-> gd.twoHandsPresent, handsDistance |-> gd.handsDistance]

\* ParticleSystem.update: the uniforms of the frame.  (The rotation of the
\* Points object, which no buffer or uniform depends on, is left out.)
update(gesture) ==
    uniforms' = [time |-> clock,
                 morphFactor |-> MorphFactor(clock - morphStartTime),
                 dispersion |-> (gesture.openness - Half) * 2 * dispersionMultiplier,
                 pinch |-> gesture.pinch,
                 zoom |-> IF gesture.twoHands
                          THEN gesture.handsDistance * zoomScale ELSE One]

\* App.animate: one render frame.
animate ==
    /\ ops < MaxOps
    /\ ops' = ops + 1
    /\ Called("animate", "", 0)
    /\ update(getGestureState)
    /\ UNCHANGED recordVars
    /\ UNCHANGED <<clock, particleVars, gd, callbacks, taskVars, driverVars>>

\* The vertex shader's morph: smoothstep(0.0, 1.0, morphFactor), in units of
\* 1/morphSpeed^3, and mix(sourcePosition, targetPosition, t) as a term.
EaseOne == morphSpeed * morphSpeed * morphSpeed

\* An ease-in t * t in place of smoothstep.
MutSmoothstepEaseIn(f) ==
    LET t == Max(0, Min(morphSpeed, f))
    IN  t * t * morphSpeed

smoothstep(f) ==
    LET t == Max(0, Min(morphSpeed, f))
    IN  t * t * (3 * morphSpeed - 2 * t)

mix(a, b, t) == [a |-> a, b |-> b, t |-> t]

vertexPos(i) ==
    mix(sourcePositions[i], targetPositions[i], smoothstep(uniforms.morphFactor))

\* The clock of performance.now(): it never goes back.
Tick ==
    /\ clock < MaxTime
    /\ clock' = clock + 1
    /\ UNCHANGED recordVars
    /\ UNCHANGED <<ops, lastCall, particleVars, uniforms, gd,
                   callbacks, taskVars, driverVars>>

\* --------------------------------------------------------- GestureDetector

\* A hand as the detector reports it, reduced to what processResults derives
\* from its landmarks: the wrist (landmark 0), the sum totalExtension of
\* calculateOpenness, the atan2 of calculateRotation and the thumb-tip to
\* index-tip distance of calculatePinch.  Thousandths, times Step.
Hand(wx, wy, ext, rot, dist) ==
    [wrist |-> [x |-> wx * Step, y |-> wy * Step], totalExtension |-> ext * Step,
     rotation |-> rot * Step, distance |-> dist * Step]

\* A hand at rest in the middle of the image; a hand stretched open, turned
\* and pinching; a fist turned the other way; a hand at rest but turned.
RestingHand == Hand(500, 500, 4000, 0, 300)
OpenHand == Hand(800, 500, 7000, 1500, 40)
ClosedHand == Hand(200, 900, 1000, -1500, 100)
TurnedHand == Hand(500, 500, 4000, 1500, 300)

Hands == {RestingHand, OpenHand, ClosedHand}

\* The results of a detection callback: without a landmark list, with an
\* empty one, with one hand, with two hands.
Results ==
    {[defined |-> FALSE, multiHandLandmarks |-> <<>>],
     [defined |-> TRUE, multiHandLandmarks |-> <<>>]}
    \cup {[defined |-> TRUE, multiHandLandmarks |-> <<h>>] : h \in Hands}
    \cup {[defined |-> TRUE, multiHandLandmarks |-> <<h[1], h[2]>>] :
              h \in {p \in Hands \X Hands : p[1] # p[2]}}

\* The rescaling (totalExtension - 2) / 4 without the clamp.
MutOpennessUnclamped(landmarks) == (landmarks.totalExtension - 2 * One) \div 4

\* Math.min(1, Math.max(0, (totalExtension - 2) / 4)).
calculateOpenness(landmarks) ==
    Min(One, Max(0, (landmarks.totalExtension - 2 * One) \div 4))

\* Math.atan2(middleMCP.x - wrist.x, middleMCP.y - wrist.y).
calculateRotation(landmarks) == landmarks.rotation

\* 1 - distance * 5 without the Math.max.
MutPinchUnclamped(landmarks) == One - landmarks.distance * 5

\* Math.max(0, 1 - distance * 5).
calculatePinch(landmarks) == Max(0, One - landmarks.distance * 5)

\* The threshold of detectSwipe, 0.15.
swipeThreshold == 150 * Step

Abs(x) == IF x < 0 THEN -x ELSE x

\* A detectSwipe with the directions exchanged.
MutDetectSwipeMirrored(g, currentX) ==
    LET diff == currentX - g.lastWristX
    IN  IF Abs(diff) > swipeThreshold
        THEN [g EXCEPT !.swipeDirection = IF diff > 0 THEN "left" ELSE "right",
                       !.lastWristX = currentX]
        ELSE [g EXCEPT !.swipeDirection = "null"]

\* A detectSwipe that records the wrist x of every call.
MutDetectSwipeTracksEveryCall(g, currentX) ==
    LET diff == currentX - g.lastWristX
    IN  IF Abs(diff) > swipeThreshold
        THEN [g EXCEPT !.swipeDirection = IF diff > 0 THEN "right" ELSE "left",
                       !.lastWristX = currentX]
        ELSE [g EXCEPT !.swipeDirection = "null", !.lastWristX = currentX]

\* A detectSwipe that leaves the direction as it was below the threshold.
MutDetectSwipeKeepsDirection(g, currentX) ==
    LET diff == currentX - g.lastWristX
    IN  IF Abs(diff) > swipeThreshold
        THEN [g EXCEPT !.swipeDirection = IF diff > 0 THEN "right" ELSE "left",
                       !.lastWristX = currentX]
        ELSE g

\* detectSwipe: the new swipeDirection and lastWristX.
detectSwipe(g, currentX) ==
    LET diff == currentX - g.lastWristX
    IN  IF Abs(diff) > swipeThreshold
        THEN [g EXCEPT !.swipeDirection = IF diff > 0 THEN "right" ELSE "left",
                       !.lastWristX = currentX]
        ELSE [g EXCEPT !.swipeDirection = "null"]

\* Math.sqrt of a sum of squares of thousandths, to the thousandth below:
\* the r in lo..hi with r * r <= v < (r + 1) * (r + 1), by bisection.
RECURSIVE SqrtBetween(_, _, _)
SqrtBetween(v, lo, hi) ==
    IF lo >= hi THEN lo
    ELSE LET mid == (lo + hi + 1) \div 2
         IN  IF mid * mid <= v THEN SqrtBetween(v, mid, hi)
             ELSE SqrtBetween(v, lo, mid - 1)

Sqrt(v) == SqrtBetween(v, 0, 2000)

WristDistance(hand1, hand2) ==
    LET dx == (hand1.wrist.x - hand2.wrist.x) \div Step
        dy == (hand1.wrist.y - hand2.wrist.y) \div Step
    IN  Sqrt(dx * dx + dy * dy) * Step

\* A smoothing that stores the increment (= for +=).
MutSmoothAssigns(smoothed, target) ==
    (target - smoothed) \div gestureSmoothingInv

\* A smoothing that jumps to the target.
MutSmoothSnaps(smoothed, target) == target

\* One step of the smoothing: smoothed += (target - smoothed) * 0.1.
Smooth(smoothed, target) ==
    smoothed + (target - smoothed) \div gestureSmoothingInv

\* A hand branch that resets the distance target when one hand is reported.
MutHandBranchResetsDistance(g, hands) ==
    LET landmarks == hands[1]
        g1 == [g EXCEPT !.handPresent = TRUE,
                        !.twoHandsPresent = Len(hands) >= 2,
                        !.targetOpenness = calculateOpenness(landmarks),
                        !.targetRotation = calculateRotation(landmarks),
                        !.targetPosition = landmarks.wrist,
                        !.targetPinch = calculatePinch(landmarks)]
        g2 == detectSwipe(g1, landmarks.wrist.x)
    IN  [g2 EXCEPT !.targetHandsDistance =
                       IF g2.twoHandsPresent
                       THEN WristDistance(hands[1], hands[2]) ELSE 0]

\* The branch of processResults taken when at least one hand is reported.
HandBranch(g, hands) ==
    LET landmarks == hands[1]
        g1 == [g EXCEPT !.handPresent = TRUE,
                        !.twoHandsPresent = Len(hands) >= 2,
                        !.targetOpenness = calculateOpenness(landmarks),
                        !.targetRotation = calculateRotation(landmarks),
                        !.targetPosition = landmarks.wrist,
                        !.targetPinch = calculatePinch(landmarks)]
        g2 == detectSwipe(g1, landmarks.wrist.x)
    IN  IF g2.twoHandsPresent
        THEN [g2 EXCEPT !.targetHandsDistance = WristDistance(hands[1], hands[2])]
        ELSE g2

\* A no-hand branch that resets every target to its idle value and snaps
\* the smoothed openness.
MutNoHandBranchResetsAll(g) ==
    [g EXCEPT !.handPresent = FALSE, !.targetOpenness = Half,
              !.handOpenness = Half, !.swipeDirection = "null",
              !.targetPinch = 0, !.targetHandsDistance = 0]

\* A no-hand branch that leaves handPresent as it was.
MutNoHandBranchKeepsPresent(g) ==
    [g EXCEPT !.targetOpenness = Half, !.swipeDirection = "null"]

\* The branch taken when no hand is reported.
NoHandBranch(g) ==
    [g EXCEPT !.handPresent = FALSE, !.targetOpenness = Half,
              !.swipeDirection = "null"]

\* The smoothing that ends processResults.
SmoothValues(g) ==
    [g EXCEPT !.handOpenness = Smooth(g.handOpenness, g.targetOpenness),
              !.handRotation = Smooth(g.handRotation, g.targetRotation),
              !.handPosition = [x |-> Smooth(g.handPosition.x, g.targetPosition.x),
                                y |-> Smooth(g.handPosition.y, g.targetPosition.y)],
              !.pinchStrength = Smooth(g.pinchStrength, g.targetPinch),
              !.handsDistance = Smooth(g.handsDistance, g.targetHandsDistance)]

\* A getGestureLabel that tests the openness before the pinch.
MutLabelOpennessFirst(g) ==
    IF ~g.handPresent THEN "No hand detected"
    ELSE IF g.handOpenness > 800 * Step THEN "Open Hand - Expand"
    ELSE IF g.handOpenness < 200 * Step THEN "Closed Fist - Contract"
    ELSE IF g.pinchStrength > 700 * Step THEN "Pinch"
    ELSE IF Abs(g.handRotation) > 1200 * Step THEN "Rotating"
    ELSE IF g.twoHandsPresent THEN "Two Hands - Zoom"
    ELSE "Hand Tracking"

\* getGestureLabel: the text shown for the detector's state.
getGestureLabel(g) ==
    IF ~g.handPresent THEN "No hand detected"
    ELSE IF g.pinchStrength > 700 * Step THEN "Pinch"
    ELSE IF g.handOpenness > 800 * Step THEN "Open Hand - Expand"
    ELSE IF g.handOpenness < 200 * Step THEN "Closed Fist - Contract"
    ELSE IF Abs(g.handRotation) > 1200 * Step THEN "Rotating"
    ELSE IF g.twoHandsPresent THEN "Two Hands - Zoom"
    ELSE "Hand Tracking"

\* The condition of processResults: a landmark list that is not empty.
HasHands(results) == results.defined /\ Len(results.multiHandLandmarks) > 0

\* The branch of processResults the results select.
WriteTargets(g, results) ==
    IF HasHands(results) THEN HandBranch(g, results.multiHandLandmarks)
    ELSE NoHandBranch(g)

\* The detector's callback (hands.onResults): processResults, then the label.
onResults(results) ==
    /\ callbacks' = callbacks + 1
    /\ Called("processResults", "", Len(results.multiHandLandmarks))
    /\ gd' = SmoothValues(WriteTargets(gd, results))
    /\ gestureText' = getGestureLabel(gd')
    /\ swipes' = IF gd'.swipeDirection # "null"
                 THEN [swipes EXCEPT !.emitted = @ + 1]
                 ELSE swipes
    /\ UNCHANGED <<evaluation, run, lattice, clock, ops, particleVars, uniforms,
                   taskVars, pollVars>>

\* One of the first MaxCallbacks callbacks, with any results.
processResults(results) ==
    /\ callbacks < MaxCallbacks
    /\ onResults(results)

\* The targets of the smoothed scalars.
Targets(g) ==
    <<g.targetOpenness, g.targetRotation, g.targetPosition, g.targetPinch,
      g.targetHandsDistance>>

\* A callback of a detector that keeps reporting what it reported: results
\* that leave every target as it is (no hand once the hand is lost, the
\* same hands while they stay still).
steadyResults(results) ==
    /\ callbacks < MaxCallbacks + MaxHeld
    /\ Targets(WriteTargets(gd, results)) = Targets(gd)
    /\ onResults(results)

\* The fields the GestureDetector constructor sets.
NewGestureDetector ==
    [handOpenness |-> Half, targetOpenness |-> Half,
     handRotation |-> 0, targetRotation |-> 0,
     handPosition |-> [x |-> Half, y |-> Half],
     targetPosition |-> [x |-> Half, y |-> Half],
     pinchStrength |-> 0, targetPinch |-> 0,
     handPresent |-> FALSE, swipeDirection |-> "null", lastWristX |-> Half,
     twoHandsPresent |-> FALSE, handsDistance |-> 0, targetHandsDistance |-> 0]

\* A hand that differs from the resting hand in its wrist x only.
SwipeHand(wx) == [RestingHand EXCEPT !.wrist.x = wx * Step]

\* Wrist positions on both sides of the resting reference 0.5: nearer than
\* the threshold, at the threshold, and beyond it.
WristXs == {440, 600, 650, 700}

\* The results of a detector that watches one hand move sideways.
SwipeResults ==
    {[defined |-> TRUE, multiHandLandmarks |-> <<>>]}
    \cup {[defined |-> TRUE, multiHandLandmarks |-> <<SwipeHand(wx)>>] :
              wx \in WristXs}

\* The results of a detector that watches one hand wave: far to the right of
\* the resting reference, and back to its left.
WaveResults ==
    {[defined |-> TRUE, multiHandLandmarks |-> <<SwipeHand(wx)>>] :
         wx \in {440, 700}}

\* A hand that differs from the resting hand in the distance of its thumb
\* tip from its index tip only.
PinchHand(dist) == [RestingHand EXCEPT !.distance = dist * Step]

\* Distances from touching to the diagonal of the unit cube, with the
\* neighbours of 0.2.
PinchDistances == {0, 1, 100, 199, 200, 201, 300, 1732}

PinchHands == {PinchHand(dist) : dist \in PinchDistances}

\* The results of a detector that watches one hand pinch.
PinchResults ==
    {[defined |-> TRUE, multiHandLandmarks |-> <<h>>] : h \in PinchHands}

\* ------------------------------------------------------------ swipe poll

\* The pattern buttons in document order, by their data-pattern: the digit
\* keys name the first ones, restricted here to the catalog explored.
BUTTONS == <<"sphere", "cube", "heart">>

ButtonIndices == 0..(Len(BUTTONS) - 1)

\* buttons.findIndex(b => b.classList.contains('active')): the first active
\* button, -1 when there is none.
findIndex(active) ==
    IF active = {} THEN -1
    ELSE CHOOSE i \in active : \A j \in active : i <= j

activeIndex == findIndex(activeButtons)

\* buttons.forEach((b, i) => b.classList.toggle('active', i === index)).
toggle(index) == {i \in ButtonIndices : i = index}

\* No consumed swipe yet, or a click since the last one.
NoRun == [swipe |-> "null", length |-> 0, start |-> {}]

\* The debounce of the swipe poll: 500 ms.
swipeDebounce == 5

\* A selection that stops at the first and at the last button.
MutNewIndexStopsAtEnds(swipe, active) ==
    IF swipe = "right" THEN Min(active + 1, Len(BUTTONS) - 1)
    ELSE Max(active - 1, 0)

\* buttons.findIndex(b => b.classList.contains('active')), moved by a swipe.
NewIndex(swipe, active) ==
    IF swipe = "right" THEN (active + 1) % Len(BUTTONS)
    ELSE (active - 1 + Len(BUTTONS)) % Len(BUTTONS)

\* A poll that changes the pattern on every tick that finds a swipe.
MutDebounceOff(now, last) == TRUE

\* now - lastSwipeTime > 500.
DebounceOver(now, last) == now - last > swipeDebounce

\* One tick of the setInterval callback: on a swipe that the debounce lets
\* through, the next or the previous button becomes the active one and its
\* pattern is set.
swipePoll(seed) ==
    LET gesture == getGestureState
        newIndex == NewIndex(gesture.swipe, activeIndex)
        patternName == BUTTONS[newIndex + 1]
    IN  /\ ops < MaxOps
        /\ ops' = ops + 1
        /\ IF gesture.swipe # "null" /\ DebounceOver(dateNow, lastSwipeTime)
           THEN /\ Called("swipePoll", patternName, 1)
                /\ activeButtons' = toggle(newIndex)
                /\ IF ~Truthy(patternName)
                   THEN UNCHANGED morphVars
                   ELSE /\ currentPattern' = patternName
                        /\ sourcePositions' =
                               CopyTargets(sourcePositions, targetPositions)
                        /\ targetPositions' =
                               GenerateTargets(targetPositions, patternName,
                                               count, seed)
                        /\ morphStartTime' = StartStamp(clock, morphStartTime)
                /\ lastSwipeTime' = dateNow
                /\ swipes' = [swipes EXCEPT !.retargets = @ + 1]
                /\ run' = IF run.swipe = gesture.swipe
                          THEN [run EXCEPT !.length = @ + 1]
                          ELSE [swipe |-> gesture.swipe, length |-> 1,
                                start |-> activeButtons]
           ELSE /\ Called("swipePoll", "", 0)
                /\ UNCHANGED <<morphVars, activeButtons, lastSwipeTime, swipes,
                               run>>
        /\ UNCHANGED <<count, randomValues, colors, sizes, baseColor,
                       particleSize>>
        /\ UNCHANGED <<evaluation, lattice, clock, uniforms, gd, callbacks,
                       taskVars, gestureText, dateNow>>

\* The clock of Date.now() advances.
TickDate ==
    /\ dateNow < StartDate + MaxElapsed
    /\ dateNow' = dateNow + 1
    /\ UNCHANGED recordVars
    /\ UNCHANGED <<clock, ops, lastCall, particleVars, uniforms, gd, callbacks,
                   taskVars, gestureText, lastSwipeTime, activeButtons>>

\* Date.now() between two polls that both pass the debounce: 600 ms on, as
\* often as there are polls to run.
DebounceElapses ==
    /\ dateNow + swipeDebounce + 1 <= StartDate + MaxOps * (swipeDebounce + 1)
    /\ dateNow' = dateNow + swipeDebounce + 1
    /\ UNCHANGED recordVars
    /\ UNCHANGED <<clock, ops, lastCall, particleVars, uniforms, gd, callbacks,
                   taskVars, gestureText, lastSwipeTime, activeButtons>>

\* The click listener of the pattern button at index: every button loses the
\* class 'active', the clicked one gets it, and its pattern is set.
click(index, seed) ==
    LET patternName == BUTTONS[index + 1]
    IN  /\ ops < MaxOps
        /\ ops' = ops + 1
        /\ Called("click", patternName, index)
        /\ activeButtons' = (activeButtons \ ButtonIndices) \cup {index}
        /\ IF ~Truthy(patternName)
           THEN UNCHANGED morphVars
           ELSE /\ currentPattern' = patternName
                /\ sourcePositions' =
                       CopyTargets(sourcePositions, targetPositions)
                /\ targetPositions' =
                       GenerateTargets(targetPositions, patternName, count, seed)
                /\ morphStartTime' = StartStamp(clock, morphStartTime)
        /\ run' = NoRun
        /\ UNCHANGED <<count, randomValues, colors, sizes, baseColor,
                       particleSize>>
        /\ UNCHANGED <<evaluation, swipes, lattice, clock, uniforms, gd, callbacks,
                       taskVars, gestureText, dateNow, lastSwipeTime>>

\* ------------------------------------------------------ event-loop tasks

\* setPattern statement by statement, for the interleavings of its callers
\* (pattern button, digit key, swipe poll) with the render loop.  The event
\* loop runs a task to its end before it starts another; a task gives the
\* loop a turn only where it suspends.
Idle == [pc |-> "idle", name |-> "", seed |-> 0, suspended |-> FALSE]

Triggers == {"click", "keydown", "swipe"}

\* A setPattern that awaits before it stamps morphStartTime.
MutSuspendsBeforeStamp(pc) == pc = "stamp"

\* Whether setPattern suspends before the statement at pc: it is a plain
\* synchronous method, with no await anywhere in its body.
Suspends(pc) == FALSE

\* The event loop may start a task.
LoopFree == task.pc = "idle" \/ task.suspended

MorphState == <<sourcePositions, targetPositions, morphStartTime>>

\* The guard, the assignment of currentPattern and the copy loop.
setPatternCopy(trigger, patternName, seed) ==
    /\ task.pc = "idle"
    /\ ops < MaxOps
    /\ ops' = ops + 1
    /\ Called(trigger, patternName, 0)
    /\ IF ~Truthy(patternName)
       THEN UNCHANGED <<currentPattern, sourcePositions, task>>
       ELSE /\ currentPattern' = patternName
            /\ sourcePositions' = CopyTargets(sourcePositions, targetPositions)
            /\ task' = [pc |-> "generate", name |-> patternName, seed |-> seed,
                        suspended |-> Suspends("generate")]
    /\ UNCHANGED <<count, targetPositions, morphStartTime, randomValues, colors,
                   sizes, baseColor, particleSize>>
    /\ UNCHANGED recordVars
    /\ UNCHANGED <<clock, uniforms, gd, callbacks, committed, torn, driverVars>>

\* The generate loop.
setPatternGenerate ==
    /\ task.pc = "generate"
    /\ targetPositions' =
           GenerateTargets(targetPositions, task.name, count, task.seed)
    /\ task' = [task EXCEPT !.pc = "stamp", !.suspended = Suspends("stamp")]
    /\ UNCHANGED <<count, currentPattern, sourcePositions, morphStartTime,
                   randomValues, colors, sizes, baseColor, particleSize>>
    /\ UNCHANGED recordVars
    /\ UNCHANGED <<clock, ops, lastCall, uniforms, gd, callbacks, committed, torn,
                   driverVars>>

\* The stamp of morphStartTime, and the return.
setPatternStamp ==
    /\ task.pc = "stamp"
    /\ morphStartTime' = StartStamp(clock, morphStartTime)
    /\ task' = Idle
    /\ committed' = <<sourcePositions, targetPositions, morphStartTime'>>
    /\ UNCHANGED <<count, currentPattern, sourcePositions, targetPositions,
                   randomValues, colors, sizes, baseColor, particleSize>>
    /\ UNCHANGED recordVars
    /\ UNCHANGED <<clock, ops, lastCall, uniforms, gd, callbacks, torn, driverVars>>

\* A render frame, started when the event loop is free.
animateTask ==
    /\ LoopFree
    /\ ops < MaxOps
    /\ ops' = ops + 1
    /\ Called("animate", "", 0)
    /\ update(getGestureState)
    /\ torn' = (torn \/ MorphState # committed)
    /\ UNCHANGED recordVars
    /\ UNCHANGED <<clock, particleVars, gd, callbacks, task, committed, driverVars>>

\* ------------------------------------------- the generators as arithmetic

\* The keys of PATTERNS.
PATTERNS ==
    {"sphere", "cube", "torus", "spiral", "heart", "galaxy", "dna", "tornado",
     "pyramid", "cylinder", "cone", "trefoilKnot", "torusKnot", "star",
     "explosion", "wave", "ripple", "butterfly", "rose", "atom", "vortex",
     "shell", "infinity", "brain", "diamond", "cloud", "lightning",
     "snowflake", "orbit"}

\* The particle counts a generator is evaluated for.
Totals == {1, 2, 1000, 30000}

\* Math.cbrt to the whole number below, by bisection.
RECURSIVE CbrtBetween(_, _, _)
CbrtBetween(v, lo, hi) ==
    IF lo >= hi THEN lo
    ELSE LET mid == (lo + hi + 1) \div 2
         IN  IF mid * mid * mid <= v THEN CbrtBetween(v, mid, hi)
             ELSE CbrtBetween(v, lo, mid - 1)

\* gridSize = Math.sqrt(total) of wave and ripple, to the whole number below:
\* 0 exactly when total is.
gridSize(total) == SqrtBetween(total, 0, total)

\* perSide = Math.cbrt(total) of cube, to the whole number below: 0 exactly
\* when total is.
perSide(total) == CbrtBetween(total, 0, gridSize(total))

\* const arms of galaxy and of snowflake.
arms(name) == IF name = "galaxy" THEN 3 ELSE 6

\* The divisors of a generator's quotients and remainders, each by a whole
\* number that is 0 exactly when the divisor is: total for i / total and
\* (i * k) % total, for total / arms and for total / 5.
Divisors(name, total) ==
    CASE name = "cube" -> {perSide(total), perSide(total) * perSide(total)}
      [] name \in {"wave", "ripple"} -> {gridSize(total)}
      [] name \in {"galaxy", "snowflake"} -> {arms(name), total}
      [] OTHER -> {total}

\* An acos argument spread over the indices up to the last one,
\* -1 + (2 * i) / (total - 1).
MutAcosArgumentsToLast(name, i, total) ==
    IF name \in {"sphere", "explosion"}
    THEN {[num |-> 2 * i - (total - 1), den |-> total - 1]}
    ELSE {}

\* The argument of Math.acos, -1 + (2 * i) / total, as a fraction.
AcosArguments(name, i, total) ==
    IF name \in {"sphere", "explosion"}
    THEN {[num |-> 2 * i - total, den |-> total]}
    ELSE {}

\* The arguments of Math.sqrt as fractions: total * Math.PI, total, i / total.
SqrtArguments(name, i, total) ==
    CASE name \in {"sphere", "explosion", "wave", "ripple"} ->
             {[num |-> total, den |-> 1]}
      [] name = "pyramid" -> {[num |-> i, den |-> total]}
      [] OTHER -> {}

\* cluster and branch: Math.floor(i / (total / 5)).
FifthIndices(name, i, total) ==
    IF name \in {"cloud", "lightning"} /\ total # 0
    THEN {(5 * i) \div total}
    ELSE {}

\* centers of cloud has five entries, and lightning has five branches.
Fifths == 0..4

\* Every argument of the call within its function's domain: acos on
\* [-1, 1], sqrt on the non-negative numbers, the fifth an index of the five.
InDomain(name, i, total) ==
    /\ \A q \in AcosArguments(name, i, total) :
           q.den # 0 /\ Abs(q.num) <= Abs(q.den)
    /\ \A q \in SqrtArguments(name, i, total) :
           q.den # 0 /\ q.num * q.den >= 0
    /\ \A k \in FifthIndices(name, i, total) : k \in Fifths

\* The point a generator returns has three finite coordinates: no divisor
\* is 0 (x / 0 is an infinity, 0 / 0 and x % 0 are NaN) and acos and sqrt get
\* arguments of their domains (NaN otherwise).  The other functions the
\* generators call (sin, cos, exp, pow with a whole exponent) are finite on
\* finite arguments.  An index off centers falls back on centers[0], and
\* branch is used as a number only.
IsFinite(name, i, total) ==
    /\ \A d \in Divisors(name, total) : d # 0
    /\ \A q \in AcosArguments(name, i, total) :
           q.den # 0 /\ Abs(q.num) <= Abs(q.den)
    /\ \A q \in SqrtArguments(name, i, total) :
           q.den # 0 /\ q.num * q.den >= 0

NotEvaluated == [name |-> "", total |-> 0, notFinite |-> {}, offDomain |-> {}]

\* The loop of setPattern over a buffer of total particles,
\* for (i < count) patternFn(i, count) with count = total: the indices at
\* which the generator returns a point that is not finite, and those at which
\* an argument leaves its function's domain.
generate(name, total) ==
    /\ evaluation = NotEvaluated
    /\ evaluation' =
           [name |-> name, total |-> total,
            notFinite |-> {i \in 0..(total - 1) : ~IsFinite(name, i, total)},
            offDomain |-> {i \in 0..(total - 1) : ~InDomain(name, i, total)}]
    /\ UNCHANGED <<swipes, run, lattice, clock, ops, lastCall, particleVars,
                   uniforms, gd, callbacks, taskVars, driverVars>>

\* --------------------------------------------------- the cube generator

\* Sides k of the cubes explored: total = k * k * k.
MaxSide == 3

Sides == 1..MaxSide

\* Math.cbrt is implementation-approximated: for a perfect cube the result
\* is the root, or the number next above or next below it.  A number is kept
\* as whole + eps * u for the unit u of that last place, and the arithmetic
\* on it is exact to the first order in u.
CbrtErrors == {-1, 0, 1}

Number(whole, eps) == [whole |-> whole, eps |-> eps]

\* Math.cbrt(total) with the given error in the last place.
cbrt(total, err) == Number(perSide(total), err)

\* a < b, by the whole parts and then by the last places.
Less(a, b) == a.whole < b.whole \/ (a.whole = b.whole /\ a.eps < b.eps)

\* d * d.
Square(d) == Number(d.whole * d.whole, 2 * d.whole * d.eps)

\* Math.floor(n / d) for a whole n >= 0: a quotient that would be the whole
\* number n / d.whole stays just below it when d is just above d.whole.
FloorDiv(n, d) ==
    IF n > 0 /\ n % d.whole = 0 /\ d.eps > 0
    THEN n \div d.whole - 1
    ELSE n \div d.whole

\* n % d for a whole n >= 0: n - Math.floor(n / d) * d.
Remainder(n, d) ==
    LET q == FloorDiv(n, d)
    IN  Number(n - q * d.whole, -(q * d.eps))

\* The cell PATTERNS.cube computes for index i: the numerators of x, y and z
\* before they are divided by perSide, for the perSide it got from Math.cbrt.
cube(i, total, err) ==
    LET side == cbrt(total, err)
    IN  [x |-> Remainder(i, side),
         y |-> Remainder(FloorDiv(i, side), side),
         z |-> Number(FloorDiv(i, Square(side)), 0),
         perSide |-> side]

NoLattice == [total |-> 0, err |-> 0, cells |-> <<>>]

\* setPattern('cube') on a buffer of k * k * k particles, in a browser whose
\* Math.cbrt has the given error: the generate loop starts.
generateCube(k, err) ==
    /\ lattice = NoLattice
    /\ lattice' = [total |-> k * k * k, err |-> err, cells |-> <<>>]
    /\ UNCHANGED <<evaluation, swipes, run, clock, ops, lastCall, particleVars,
                   uniforms, gd, callbacks, taskVars, driverVars>>

\* One pass of the generate loop: patternFn(i, this.count) for the next i.
generateCell ==
    LET i == Len(lattice.cells)
    IN  /\ lattice # NoLattice
        /\ i < lattice.total
        /\ lattice' = [lattice EXCEPT
                           !.cells = Append(@, cube(i, lattice.total, lattice.err))]
        /\ UNCHANGED <<evaluation, swipes, run, clock, ops, lastCall,
                       particleVars, uniforms, gd, callbacks, taskVars,
                       driverVars>>

\* ------------------------------------------------------------------- App

\* The state App's constructor leaves: the ParticleSystem constructed (its
\* buffers created, then setPattern('sphere')), the GestureDetector
\* constructed, the uniforms as the material declares them.
Init ==
    /\ clock \in 0..1
    /\ ops = 0
    /\ callbacks = 0
    /\ lastCall = [op |-> "constructor", name |-> "sphere", n |-> 0]
    /\ count = particleCount
    /\ currentPattern = "sphere"
    /\ morphStartTime = clock
    /\ randomValues = [i \in Indices |-> [i |-> i, seed |-> 0]]
    /\ sizes = [i \in Indices |-> [base |-> InitialSize, seed |-> 0]]
    /\ colors = [i \in Indices |-> [base |-> InitialColor, seed |-> 0]]
    /\ sourcePositions = CopyTargets([i \in Indices |-> ZeroPoint],
                                     [i \in Indices |-> ZeroPoint])
    /\ targetPositions = GenerateTargets([i \in Indices |-> ZeroPoint],
                                         "sphere", particleCount, 0)
    /\ baseColor = InitialColor
    /\ particleSize = InitialSize
    /\ uniforms = [time |-> 0, morphFactor |-> 0, dispersion |-> 0,
                   pinch |-> 0, zoom |-> One]
    /\ gd = NewGestureDetector
    /\ task = Idle
    /\ committed = <<sourcePositions, targetPositions, morphStartTime>>
    /\ torn = FALSE
    /\ gestureText = MarkupText
    /\ dateNow = StartDate
    /\ lastSwipeTime = 0
    /\ activeButtons = {0}
    /\ evaluation = NotEvaluated
    /\ swipes = [emitted |-> 0, retargets |-> 0]
    /\ run = NoRun
    /\ lattice = NoLattice

\* The particle system under its callers and the render loop.
Next ==
    \/ \E patternName \in PatternNames, seed \in Seeds : setPattern(patternName, seed)
    \/ \E color \in Colors, seed \in Seeds : setColor(color, seed)
    \/ \E size \in Sizes, seed \in Seeds : setParticleSize(size, seed)
    \/ \E newCount \in Counts : updateParticleCount(newCount)
    \/ animate
    \/ Tick

Spec == Init /\ [][Next]_vars

\* The gesture detector under the detector's callbacks and the render loop.
NextGesture ==
    \/ \E results \in Results : processResults(results)
    \/ animate

SpecGesture == Init /\ [][NextGesture]_vars

\* The results of a detector watched until its report comes to rest: no
\* hand, a hand alone, and a pair.
HoldResults ==
    {[defined |-> TRUE, multiHandLandmarks |-> hands] :
        hands \in {<<>>, <<RestingHand>>, <<OpenHand>>, <<ClosedHand>>,
                   <<TurnedHand>>, <<RestingHand, OpenHand>>}}

\* The gesture detector under a detector whose report comes to rest.
NextHold ==
    \/ \E results \in HoldResults : processResults(results)
    \/ \E results \in HoldResults : steadyResults(results)

\* The detector delivers a callback for every video frame it has processed.
SpecHold == Init /\ [][NextHold]_vars /\ WF_vars(NextHold)

\* The detector's callbacks and the swipe poll, as time passes.
NextSwipe ==
    \/ \E results \in SwipeResults : processResults(results)
    \/ \E seed \in Seeds : swipePoll(seed)
    \/ TickDate

SpecSwipe == Init /\ [][NextSwipe]_vars

\* The detector's callbacks for a hand that pinches, and the render loop.
NextPinch ==
    \/ \E results \in PinchResults : processResults(results)
    \/ animate

SpecPinch == Init /\ [][NextPinch]_vars

\* The callers of setPattern and the render loop as tasks of the event loop.
NextTasks ==
    \/ \E trigger \in Triggers, patternName \in PatternNames, seed \in Seeds :
           setPatternCopy(trigger, patternName, seed)
    \/ setPatternGenerate
    \/ setPatternStamp
    \/ animateTask
    \/ Tick

SpecTasks == Init /\ [][NextTasks]_vars

\* The selection under swipes and clicks, every poll far enough from the last
\* to pass the debounce.
NextSelect ==
    \/ \E results \in WaveResults : processResults(results)
    \/ \E seed \in Seeds : swipePoll(seed)
    \/ \E index \in ButtonIndices, seed \in Seeds : click(index, seed)
    \/ DebounceElapses

SpecSelect == Init /\ [][NextSelect]_vars

\* The cube generator over buffers of k * k * k particles.
NextLattice ==
    \/ \E k \in Sides, err \in CbrtErrors : generateCube(k, err)
    \/ generateCell

SpecLattice == Init /\ [][NextLattice]_vars

\* Each generator over each buffer size.
NextGenerate ==
    \E name \in PATTERNS, total \in Totals : generate(name, total)

SpecGenerate == Init /\ [][NextGenerate]_vars

\* ------------------------------------------------------------------ claims

Registered == PATTERN_LIST
Deterministic == PATTERN_LIST \ RandomPatterns

IsSetPattern(names) ==
    \E patternName \in names, seed \in Seeds : setPattern(patternName, seed)

\* C1: setPattern with a name that is no registered key of the catalog,
\* inherited names such as 'constructor' and 'toString' included, leaves
\* currentPattern, both position buffers and morphStartTime unchanged.
C1_UnregisteredRejected ==
    [][IsSetPattern(PatternNames \ Registered) => UNCHANGED morphVars]_vars

\* C2: after setPattern(p) with a registered p, every sourcePosition entry is
\* the targetPosition entry held just before the call, currentPattern is p
\* and morphStartTime is the time of the call.
C2_RetargetCopiesTarget ==
    [][\A p \in Registered :
          (\E seed \in Seeds : setPattern(p, seed)) =>
              /\ \A i \in Indices : sourcePositions'[i] = targetPositions[i]
              /\ currentPattern' = p
              /\ morphStartTime' = clock]_vars

SpherePoints == [i \in Indices |-> PatternPoint("sphere", i, particleCount, 0)]
CubePoints == [i \in Indices |-> PatternPoint("cube", i, particleCount, 0)]

\* A retarget to cube that interrupted the initial morph to sphere after a
\* frame had rendered it part-way (0 < morphFactor < 1): the source is the
\* sphere being approached.
C2_Witness ==
    /\ lastCall.op = "setPattern" /\ lastCall.name = "cube"
    /\ uniforms.morphFactor > 0 /\ uniforms.morphFactor < morphSpeed
    /\ clock < morphSpeed
    /\ morphStartTime = clock
    /\ currentPattern = "cube"
    /\ sourcePositions = SpherePoints

\* C3: whenever the current pattern is a deterministic one, every entry i of
\* the allocated target buffer is a point the current pattern's generator
\* yields for index i.
C3_TargetsOfCurrentPattern ==
    currentPattern \in Deterministic =>
        \A i \in Indices :
            \E total \in 1..particleCount :
                targetPositions[i] = PatternPoint(currentPattern, i, total, 0)

\* C4: setPattern(p) right after setPattern(p), for a deterministic p,
\* leaves every targetPosition entry as the first call left it, and leaves
\* sourcePosition equal to targetPosition.
C4_RetargetIdempotent ==
    [][\A p \in Deterministic :
          (/\ lastCall.op = "setPattern" /\ lastCall.name = p
           /\ \E seed \in Seeds : setPattern(p, seed)) =>
              /\ targetPositions' = targetPositions
              /\ sourcePositions' = targetPositions']_vars

\* Two handler calls since construction, the second a setPattern('cube') that
\* found the targets already those of cube.
C4_Witness ==
    /\ ops = 2
    /\ lastCall.op = "setPattern" /\ lastCall.name = "cube"
    /\ targetPositions = CubePoints
    /\ sourcePositions = CubePoints

\* C5: the morph factor a frame writes, and the one a frame would compute in
\* any state, lie in [0, 1]; while morphStartTime stays the same the factor
\* never decreases as the clock advances.
C5_FactorInRange ==
    /\ uniforms.morphFactor >= 0 /\ uniforms.morphFactor <= morphSpeed
    /\ MorphFactor(clock - morphStartTime) >= 0
    /\ MorphFactor(clock - morphStartTime) <= morphSpeed

C5_FactorMonotone ==
    /\ morphStartTime' = morphStartTime =>
           MorphFactor(clock' - morphStartTime') >= MorphFactor(clock - morphStartTime)
    /\ (morphStartTime' = morphStartTime /\ morphStartTime < uniforms.time) =>
           uniforms'.morphFactor >= uniforms.morphFactor

C5_BlendFactor == [](C5_FactorInRange) /\ [][C5_FactorMonotone]_vars

\* A second frame of the same morph, strictly inside it.
C5_Witness ==
    /\ lastCall.op = "animate" /\ ops >= 2
    /\ uniforms.time > morphStartTime + 1
    /\ uniforms.morphFactor > 1 /\ uniforms.morphFactor < morphSpeed

\* C6: a frame at least morphSpeed after the last setPattern writes factor
\* exactly 1, whose eased value is 1; the factor a frame computes goes down
\* only in a step that is a setPattern the guard accepted, and the written
\* factor goes down only in a frame that follows such a setPattern.
C6_Pinned ==
    uniforms.time - morphStartTime >= morphSpeed =>
        /\ uniforms.morphFactor = morphSpeed
        /\ smoothstep(uniforms.morphFactor) = EaseOne

C6_OnlyRetargetLowers ==
    /\ MorphFactor(clock' - morphStartTime') < MorphFactor(clock - morphStartTime) =>
           \E p \in PatternNames, seed \in Seeds : Truthy(p) /\ setPattern(p, seed)
    /\ uniforms'.morphFactor < uniforms.morphFactor => morphStartTime >= uniforms.time

C6_PinnedAtOne == [](C6_Pinned) /\ [][C6_OnlyRetargetLowers]_vars

\* A frame later than the end of the morph, after an earlier frame.
C6_Witness ==
    /\ lastCall.op = "animate" /\ ops >= 2
    /\ uniforms.time - morphStartTime > morphSpeed
    /\ uniforms.morphFactor = morphSpeed

\* C7: from the constructed system (sphere), setPattern('cube') at t0; a
\* frame at t0 renders, for every index, the mix of the sphere point and the
\* cube point at weight 0, a frame at t0 + morphSpeed at weight 1, and a
\* frame at t0 + morphSpeed / 2 at weight smoothstep(0.5) = 0.5.
SphereToCube ==
    /\ lastCall.op = "animate"
    /\ currentPattern = "cube"
    /\ sourcePositions = SpherePoints
    /\ targetPositions = CubePoints

C7_EndToEndMorph ==
    SphereToCube =>
        /\ uniforms.time = morphStartTime =>
               \A i \in Indices :
                   vertexPos(i) = mix(SpherePoints[i], CubePoints[i], 0)
        /\ uniforms.time = morphStartTime + morphSpeed =>
               \A i \in Indices :
                   vertexPos(i) = mix(SpherePoints[i], CubePoints[i], EaseOne)
        /\ 2 * (uniforms.time - morphStartTime) = morphSpeed =>
               \A i \in Indices :
                   vertexPos(i) = mix(SpherePoints[i], CubePoints[i], EaseOne \div 2)

\* The frame half-way through the morph from sphere to cube.
C7_Witness ==
    /\ SphereToCube
    /\ 2 * (uniforms.time - morphStartTime) = morphSpeed

\* C8: whatever the interleaving of the callers of setPattern with render
\* frames, a frame reads the source buffer, the target buffer and
\* morphStartTime either all as they were before a setPattern or all as that
\* setPattern left them: whenever a frame may start the three are those of
\* the last completed setPattern, and no frame has read anything else.
C8_NoTornFrame ==
    /\ ~torn
    /\ LoopFree => MorphState = committed

\* A frame rendered after a setPattern('cube') that interrupted the initial
\* morph while it was in flight.
C8_Witness ==
    /\ lastCall.op = "animate"
    /\ task.pc = "idle"
    /\ currentPattern = "cube"
    /\ sourcePositions = SpherePoints
    /\ targetPositions = CubePoints
    /\ morphStartTime > 0 /\ morphStartTime < morphSpeed
    /\ uniforms.time >= morphStartTime

\* The smoothed scalars of the gesture detector.
Smoothed(g) ==
    <<g.handOpenness, g.handRotation, g.handPosition, g.pinchStrength,
      g.handsDistance>>

IsProcessResults == \E results \in Results : processResults(results)

\* C9: a detection callback leaves every smoothed scalar unchanged, and a
\* render frame moves every smoothed scalar one smoothing step toward its
\* target.
C9_SmoothingInFrames ==
    [][/\ IsProcessResults => Smoothed(gd') = Smoothed(gd)
       /\ animate => Smoothed(gd') = Smoothed(SmoothValues(gd))]_vars

\* C9, amended: a detection callback moves every smoothed scalar one step
\* toward the target the callback has just written, by
\* smoothed += (target - smoothed) * 0.1, and a render frame leaves every
\* smoothed scalar and every target as it was.
StepToward(before, after, target) ==
    gestureSmoothingInv * (after - before) = target - before

C9_SmoothingInCallbacks ==
    [][/\ IsProcessResults =>
              /\ StepToward(gd.handOpenness, gd'.handOpenness, gd'.targetOpenness)
              /\ StepToward(gd.handRotation, gd'.handRotation, gd'.targetRotation)
              /\ StepToward(gd.handPosition.x, gd'.handPosition.x,
                            gd'.targetPosition.x)
              /\ StepToward(gd.handPosition.y, gd'.handPosition.y,
                            gd'.targetPosition.y)
              /\ StepToward(gd.pinchStrength, gd'.pinchStrength, gd'.targetPinch)
              /\ StepToward(gd.handsDistance, gd'.handsDistance,
                            gd'.targetHandsDistance)
       /\ animate => gd' = gd]_vars

\* A frame rendered after two callbacks, with the smoothed openness and
\* pinch still away from their targets.
C9_Witness ==
    /\ lastCall.op = "animate"
    /\ callbacks >= 2
    /\ gd.handOpenness # gd.targetOpenness
    /\ gd.pinchStrength # gd.targetPinch
    /\ gd.handOpenness # Half

\* C10: after a detection callback handPresent is true exactly when the
\* callback reported at least one hand (none also when it carries no
\* landmark list).
C10_HandPresentIffHands ==
    [][\A results \in Results :
          processResults(results) =>
              gd'.handPresent =
                  (results.defined /\ Len(results.multiHandLandmarks) >= 1)]_vars

\* NoHand entered from HandPresent: a callback without hands after one that
\* had set the rotation target from a hand.
C10_Witness ==
    /\ lastCall.op = "processResults" /\ lastCall.n = 0
    /\ ~gd.handPresent
    /\ gd.targetRotation # 0

\* C11: a detection callback reporting no hand sets the openness target to
\* 0.5 and swipeDirection to null; the smoothed openness moves one smoothing
\* step from its previous value toward 0.5 (it is not set to 0.5), and the
\* targets of rotation, pinch, position and handsDistance stay as they were.
C11_NoHandKeepsTargets ==
    [][\A results \in Results :
          (~HasHands(results) /\ processResults(results)) =>
              /\ gd'.targetOpenness = Half
              /\ gd'.swipeDirection = "null"
              /\ StepToward(gd.handOpenness, gd'.handOpenness, Half)
              /\ gd'.targetRotation = gd.targetRotation
              /\ gd'.targetPinch = gd.targetPinch
              /\ gd'.targetPosition = gd.targetPosition
              /\ gd'.targetHandsDistance = gd.targetHandsDistance]_vars

\* The hands are lost after a two-hand callback: the smoothed openness is
\* still away from 0.5, and the pinch and distance targets are those of the
\* hands.
C11_Witness ==
    /\ lastCall.op = "processResults" /\ lastCall.n = 0
    /\ gd.targetOpenness = Half
    /\ gd.handOpenness # Half
    /\ gd.targetPinch > 0
    /\ gd.targetHandsDistance > 0

\* C13: in every reachable state the smoothed openness and the smoothed
\* pinch lie in [0, 1], the openness target and the pinch target lie in
\* [0, 1], and the smoothed handsDistance is at least 0.
C13_ScalarsInRange ==
    /\ gd.handOpenness >= 0 /\ gd.handOpenness <= One
    /\ gd.pinchStrength >= 0 /\ gd.pinchStrength <= One
    /\ gd.targetOpenness >= 0 /\ gd.targetOpenness <= One
    /\ gd.targetPinch >= 0 /\ gd.targetPinch <= One
    /\ gd.handsDistance >= 0

\* Two hands, the first with its fingers stretched beyond the rescaled range
\* (the openness target is the clamp's 1) and its thumb near the index.
C13_Witness ==
    /\ lastCall.op = "processResults" /\ lastCall.n = 2
    /\ gd.targetOpenness = One
    /\ gd.handOpenness > Half
    /\ gd.pinchStrength > 0
    /\ gd.handsDistance > 0

\* The distance below which a smoothed value counts as arrived: 1e-3.
Epsilon == One \div 1000

Near(smoothed, target) == Abs(smoothed - target) <= Epsilon

Arrived(g) ==
    /\ Near(g.handOpenness, g.targetOpenness)
    /\ Near(g.handRotation, g.targetRotation)
    /\ Near(g.handPosition.x, g.targetPosition.x)
    /\ Near(g.handPosition.y, g.targetPosition.y)
    /\ Near(g.pinchStrength, g.targetPinch)
    /\ Near(g.handsDistance, g.targetHandsDistance)

Closer(before, after, target) == Abs(after - target) <= Abs(before - target)

\* C12: with the targets held (the detector keeps reporting the same) for
\* MaxHeld callbacks, every smoothed scalar is within 1e-3 of its target,
\* and the smoothed openness within 1e-3 of 0.5 if no hand is present; no
\* callback with the targets held takes a scalar farther from its target,
\* so that a scalar that has arrived stays.
C12_Settled ==
    callbacks = MaxCallbacks + MaxHeld =>
        /\ Arrived(gd)
        /\ ~gd.handPresent => Near(gd.handOpenness, Half)

C12_HeldStepCloser ==
    (\E results \in HoldResults : steadyResults(results)) =>
        /\ Arrived(gd) => Arrived(gd')
        /\ Closer(gd.handOpenness, gd'.handOpenness, gd'.targetOpenness)
        /\ Closer(gd.handRotation, gd'.handRotation, gd'.targetRotation)
        /\ Closer(gd.handPosition.x, gd'.handPosition.x, gd'.targetPosition.x)
        /\ Closer(gd.handPosition.y, gd'.handPosition.y, gd'.targetPosition.y)
        /\ Closer(gd.pinchStrength, gd'.pinchStrength, gd'.targetPinch)
        /\ Closer(gd.handsDistance, gd'.handsDistance, gd'.targetHandsDistance)

C12_SmoothingConverges ==
    /\ [](C12_Settled)
    /\ [][C12_HeldStepCloser]_vars

\* The hand is lost after it had pinched and turned: the smoothed openness
\* has come back within 1e-3 of 0.5, and the pinch and the rotation have
\* arrived at the targets the hand left.
C12_Witness ==
    /\ lastCall.op = "processResults" /\ lastCall.n = 0
    /\ callbacks = MaxCallbacks + MaxHeld
    /\ Arrived(gd)
    /\ gd.targetPinch > Half
    /\ gd.targetRotation # 0
    /\ gd.handsDistance > 0

\* The wrist x of the first hand of the results.
WristX(results) == results.multiHandLandmarks[1].wrist.x

\* The swipe a difference of wrist x stands for, where the claim decides it.
SwipeFor(dx, swipe) ==
    /\ Abs(dx) < swipeThreshold => swipe = "null"
    /\ dx > swipeThreshold => swipe = "right"
    /\ dx < -swipeThreshold => swipe = "left"

\* C14: of two consecutive callbacks with a hand, the second leaves
\* swipeDirection null if the two wrist x differ by less than 0.15, and sets
\* it to 'right' or 'left', by the sign of the difference, if they differ by
\* more than 0.15.  (The target position is the wrist of the previous call.)
C14_SwipeBetweenCalls ==
    [][\A results \in SwipeResults :
          (gd.handPresent /\ HasHands(results) /\ processResults(results)) =>
              SwipeFor(WristX(results) - gd.targetPosition.x,
                       gd'.swipeDirection)]_vars

\* C14, amended: the difference that decides is the one between the wrist x
\* of the call and the reference, the wrist x of the last call that emitted
\* a swipe (0.5 before any); it is the difference between two consecutive
\* calls when the first of them emitted a swipe.
C14_SwipeAgainstReference ==
    [][\A results \in SwipeResults :
          (HasHands(results) /\ processResults(results)) =>
              /\ SwipeFor(WristX(results) - gd.lastWristX, gd'.swipeDirection)
              /\ gd.swipeDirection # "null" =>
                     SwipeFor(WristX(results) - gd.targetPosition.x,
                              gd'.swipeDirection)]_vars

\* The hand has drifted from 0.5 to 0.6 and on to 0.7: the last call, 0.1
\* from the one before, emitted 'right'.
C14_Witness ==
    /\ lastCall.op = "processResults" /\ callbacks = 2
    /\ gd.targetPosition.x = 700 * Step
    /\ gd.lastWristX = 700 * Step
    /\ gd.swipeDirection = "right"

\* C15: a callback with a hand compares the wrist x with the reference; if
\* they differ by more than 0.15 it sets swipeDirection by the sign and
\* moves the reference to the wrist x, otherwise it sets swipeDirection to
\* null and leaves the reference; a callback without a hand leaves the
\* reference; the reference starts at 0.5.
C15_Reference ==
    \A results \in SwipeResults :
        processResults(results) =>
            IF HasHands(results)
            THEN LET dx == WristX(results) - gd.lastWristX
                 IN  IF Abs(dx) > swipeThreshold
                     THEN /\ gd'.swipeDirection =
                                 (IF dx > 0 THEN "right" ELSE "left")
                          /\ gd'.lastWristX = WristX(results)
                     ELSE /\ gd'.swipeDirection = "null"
                          /\ gd'.lastWristX = gd.lastWristX
            ELSE gd'.lastWristX = gd.lastWristX

C15_SwipeReference ==
    /\ [](callbacks = 0 => gd.lastWristX = Half)
    /\ [][C15_Reference]_vars

\* After a swipe to the right had moved the reference to 0.7, the hand came
\* back to 0.6: no swipe, and the reference is still 0.7.
C15_Witness ==
    /\ lastCall.op = "processResults" /\ lastCall.n = 1
    /\ gd.targetPosition.x = 600 * Step
    /\ gd.lastWristX = 700 * Step
    /\ gd.swipeDirection = "null"

\* C16: swipeDirection is other than null after a callback only if that
\* callback emitted the swipe (a hand whose wrist x is farther than 0.15 from
\* the reference, which moves there); no other step writes swipeDirection.
C16_Emitted(results) ==
    /\ HasHands(results)
    /\ Abs(WristX(results) - gd.lastWristX) > swipeThreshold
    /\ gd'.lastWristX = WristX(results)

C16_SwipeOneShot ==
    [][/\ \A results \in SwipeResults :
              processResults(results) =>
                  (gd'.swipeDirection # "null" => C16_Emitted(results))
       /\ (~\E results \in SwipeResults : processResults(results)) =>
              gd'.swipeDirection = gd.swipeDirection]_vars

\* A swipe was emitted, the poll has acted on it, and the next callback,
\* with the hand where it was, has cleared it.
C16_Witness ==
    /\ lastCall.op = "processResults" /\ lastCall.n = 1
    /\ lastSwipeTime > 0
    /\ gd.lastWristX = gd.targetPosition.x /\ gd.lastWristX # Half
    /\ gd.swipeDirection = "null"

\* C17: a poll tick changes the pattern only on a swipe and more than 500 ms
\* after the previous change by a swipe; a tick that finds swipeDirection
\* null, or 500 ms or less elapsed, leaves the pattern, the buffers, the
\* start time and the active button as they were.
C17_Poll ==
    (\E seed \in Seeds : swipePoll(seed)) =>
        /\ (gd.swipeDirection = "null"
                \/ dateNow - lastSwipeTime <= swipeDebounce) =>
               UNCHANGED <<morphVars, activeIndex, lastSwipeTime>>
        /\ lastSwipeTime' # lastSwipeTime =>
               /\ lastSwipeTime' = dateNow
               /\ lastSwipeTime' - lastSwipeTime > swipeDebounce
        /\ ~UNCHANGED <<morphVars, activeIndex>> => lastSwipeTime' = dateNow

C17_SwipeDebounce ==
    /\ [](lastSwipeTime <= dateNow)
    /\ [][C17_Poll]_vars
    /\ [][~(\E seed \in Seeds : swipePoll(seed)) =>
              lastSwipeTime' = lastSwipeTime]_vars

\* A tick held back by the debounce: a swipe is pending exactly 500 ms after
\* the change the previous swipe made, and the tick changed nothing.
C17_Witness ==
    /\ lastCall.op = "swipePoll" /\ lastCall.n = 0
    /\ gd.swipeDirection # "null"
    /\ lastSwipeTime > 0
    /\ dateNow - lastSwipeTime = swipeDebounce
    /\ activeIndex # 0

\* Whether d is the distance of the two wrists in the plane, to the
\* thousandth below.
IsWristDistance(d, hand1, hand2) ==
    LET dx == (hand1.wrist.x - hand2.wrist.x) \div Step
        dy == (hand1.wrist.y - hand2.wrist.y) \div Step
        r == d \div Step
    IN  /\ r * Step = d /\ r >= 0
        /\ r * r <= dx * dx + dy * dy
        /\ (r + 1) * (r + 1) > dx * dx + dy * dy

\* C18: a callback reporting two hands sets targetHandsDistance to the
\* distance of the two wrists in the plane; a callback reporting one hand
\* or none, and any other step, leaves targetHandsDistance as it was.
C18_Distance ==
    /\ \A results \in Results :
           processResults(results) =>
               IF results.defined /\ Len(results.multiHandLandmarks) >= 2
               THEN IsWristDistance(gd'.targetHandsDistance,
                                    results.multiHandLandmarks[1],
                                    results.multiHandLandmarks[2])
               ELSE gd'.targetHandsDistance = gd.targetHandsDistance
    /\ (~\E results \in Results : processResults(results)) =>
           gd'.targetHandsDistance = gd.targetHandsDistance

C18_DistanceOnlyWithTwoHands == [][C18_Distance]_vars

\* The second hand is lost: one hand is reported, and the distance target is
\* still that of the two hands.
C18_Witness ==
    /\ lastCall.op = "processResults" /\ lastCall.n = 1
    /\ gd.handPresent /\ ~gd.twoHandsPresent
    /\ gd.targetHandsDistance > 0

\* C19: the pinch target a callback writes for a thumb-to-index distance d
\* is 1 - 5 d where that is positive and 0 elsewhere; it is never above 1,
\* it is 0 for every d >= 0.2, and no larger distance yields a higher pinch
\* nor a smaller distance a lower one.
C19_Pinch ==
    \A results \in PinchResults :
        processResults(results) =>
            LET d == results.multiHandLandmarks[1].distance
                pinch == gd'.targetPinch
            IN  /\ pinch >= 0 /\ pinch <= One
                /\ d >= 200 * Step => pinch = 0
                /\ d < 200 * Step => pinch = One - 5 * d
                /\ \A other \in PinchHands :
                       /\ other.distance >= d => calculatePinch(other) <= pinch
                       /\ other.distance <= d => calculatePinch(other) >= pinch

C19_PinchMonotone == [][C19_Pinch]_vars

\* The thumb has left the index after a callback that saw a pinch: the
\* target is back at 0, the smoothed pinch is not yet.
C19_Witness ==
    /\ lastCall.op = "processResults" /\ callbacks >= 2
    /\ gd.targetPinch = 0
    /\ gd.pinchStrength > 0
    /\ gd.pinchStrength < One \div gestureSmoothingInv

\* The rules of the label in the order of their priority, the six of the
\* claim after the one for an absent hand.
LabelRules(g) ==
    << [when |-> ~g.handPresent, label |-> "No hand detected"],
       [when |-> g.pinchStrength > 700 * Step, label |-> "Pinch"],
       [when |-> g.handOpenness > 800 * Step, label |-> "Open Hand - Expand"],
       [when |-> g.handOpenness < 200 * Step, label |-> "Closed Fist - Contract"],
       [when |-> Abs(g.handRotation) > 1200 * Step, label |-> "Rotating"],
       [when |-> g.twoHandsPresent, label |-> "Two Hands - Zoom"],
       [when |-> TRUE, label |-> "Hand Tracking"] >>

\* The label of the first rule that matches.
FirstMatch(rules) ==
    LET k == CHOOSE k \in 1..Len(rules) :
                 rules[k].when /\ \A j \in 1..(k - 1) : ~rules[j].when
    IN  rules[k].label

\* C20: for every combination of values the label shown after a callback
\* is that of the first matching rule among pinch > 0.7, openness > 0.8,
\* openness < 0.2, |rotation| > 1.2, two hands, and tracking.
C20_LabelOfSixRules ==
    callbacks > 0 => gestureText = FirstMatch(Tail(LabelRules(gd)))

\* C20, amended: while no hand is present the label is 'No hand detected',
\* whatever the smoothed values; while a hand is present it is that of the
\* first matching rule of the six.
C20_LabelByPriority ==
    callbacks > 0 => gestureText = FirstMatch(LabelRules(gd))

\* A hand held open, turned and pinching: three rules match, and the label
\* is that of the pinch.
C20_Witness ==
    /\ gd.handPresent
    /\ gd.pinchStrength > 700 * Step
    /\ gd.handOpenness > 800 * Step
    /\ Abs(gd.handRotation) > 1200 * Step
    /\ gestureText = "Pinch"

\* The random values as createParticles drew them.
CreatedRandomValues == [i \in Indices |-> [i |-> i, seed |-> 0]]

\* C21: the randomValue buffer holds in every state what createParticles
\* put there: no retarget, frame, setColor, setParticleSize or
\* updateParticleCount changes an entry.
C21_RandomValuesKept ==
    /\ [](randomValues = CreatedRandomValues)
    /\ [][randomValues' = randomValues]_vars

\* The colour and the size have been set anew and the pattern changed.
C21_Witness ==
    /\ ops >= 3
    /\ baseColor # InitialColor
    /\ particleSize # InitialSize
    /\ currentPattern # "sphere"
    /\ randomValues = CreatedRandomValues

\* C22: the source, target and random value buffers keep the N entries they
\* were created with, count never exceeds N, and updateParticleCount with a
\* request above N sets count to N and changes nothing else.
C22_Capacity ==
    /\ DOMAIN sourcePositions = Indices
    /\ DOMAIN targetPositions = Indices
    /\ DOMAIN randomValues = Indices
    /\ count <= particleCount

C22_AboveCapacity ==
    \A newCount \in Counts :
        (newCount > particleCount /\ updateParticleCount(newCount)) =>
            /\ count' = particleCount
            /\ UNCHANGED <<morphVars, randomValues, colors, sizes, baseColor,
                           particleSize>>

C22_BuffersNotResized == [](C22_Capacity) /\ [][C22_AboveCapacity]_vars

\* The count was lowered, then a request above N brought it back to N.
C22_Witness ==
    /\ lastCall.op = "updateParticleCount" /\ lastCall.n > particleCount
    /\ ops >= 2
    /\ count = particleCount

\* C23: a frame and setColor leave currentPattern, morphStartTime and every
\* sourcePosition and targetPosition entry as they were; setColor writes the
\* colour buffer and the base colour and nothing else of the particle system.
C23_Cosmetic ==
    /\ animate => UNCHANGED morphVars
    /\ (\E color \in Colors, seed \in Seeds : setColor(color, seed)) =>
           UNCHANGED <<morphVars, count, randomValues, sizes, particleSize>>

C23_MorphStateKept == [][C23_Cosmetic]_vars

\* setColor in the middle of a morph to cube that a frame had rendered.
C23_Witness ==
    /\ lastCall.op = "setColor"
    /\ baseColor # InitialColor
    /\ currentPattern = "cube"
    /\ uniforms.time >= morphStartTime /\ uniforms.time > 0
    /\ clock - morphStartTime < morphSpeed

\* Whether a buffer entry is a point a pattern generator returned.
Generated(point) == point.gen \in PATTERN_LIST

\* C24: every point a generator has returned came from a call with
\* total >= 1 and an index i with 0 <= i < total: the point stored at index k
\* of a buffer came from the call for index k.
C24_GeneratorArguments ==
    \A k \in Indices :
        \A point \in {sourcePositions[k], targetPositions[k]} :
            Generated(point) =>
                /\ point.total >= 1
                /\ point.i = k
                /\ point.i >= 0 /\ point.i < point.total

\* setPattern with count at 0: the generator was not called, and the targets
\* are those of the pattern before.
C24_Witness ==
    /\ lastCall.op = "setPattern" /\ lastCall.name = "cube"
    /\ count = 0
    /\ currentPattern = "cube"
    /\ targetPositions = SpherePoints

\* C25: for every registered pattern and every total in {1, 2, 1000, 30000}
\* the generator returns a finite point at every index i in [0, total), and
\* every argument stays in its function's domain: the acos argument in
\* [-1, 1], the cluster or branch index in [0, 4], no divisor 0.
C25_GeneratorsFinite ==
    evaluation # NotEvaluated =>
        /\ evaluation.name \in PATTERNS
        /\ evaluation.total \in Totals
        /\ evaluation.notFinite = {}
        /\ evaluation.offDomain = {}
        /\ \A d \in Divisors(evaluation.name, evaluation.total) : d # 0

C25_Witness ==
    /\ evaluation.name = "lightning"
    /\ evaluation.total = 30000
    /\ evaluation.notFinite = {}
    /\ FifthIndices("lightning", 29999, 30000) = {4}
    /\ AcosArguments("sphere", 0, 1) = {[num |-> -1, den |-> 1]}

\* What the last detection callback reported, read off the flags it wrote:
\* every callback writes handPresent (false on no hand), and every callback
\* that reports a hand writes twoHandsPresent (false on one hand).
FewerThanTwoHands ==
    callbacks > 0 /\ (~gd.handPresent \/ ~gd.twoHandsPresent)

\* The uniforms a frame writes, from the gesture state it reads.
C26_UniformsOfGesture ==
    [][animate =>
           /\ uniforms'.dispersion =
                  (gd.handOpenness - Half) * 2 * dispersionMultiplier
           /\ uniforms'.pinch = gd.pinchStrength
           /\ uniforms'.zoom = IF gd.twoHandsPresent
                               THEN gd.handsDistance * zoomScale ELSE One]_vars

\* C26: each frame writes dispersion = (openness - 0.5) * 2 * multiplier,
\* pinch = pinchStrength and zoom = handsDistance * scale when twoHands is
\* set and 1 otherwise; so zoom is 1 on every frame on which the last
\* detection callback reported fewer than two hands.
C26_ZoomOfLastCallback ==
    /\ C26_UniformsOfGesture
    /\ [][(animate /\ FewerThanTwoHands) => uniforms'.zoom = One]_vars

\* C27: in every reachable state twoHandsPresent implies handPresent: after
\* a callback that reported no hand twoHandsPresent is false, and it is true
\* only if the last callback reported at least two hands.
C27_TwoHandsImpliesPresent ==
    /\ gd.twoHandsPresent => gd.handPresent
    /\ lastCall.op = "processResults" =>
           /\ lastCall.n = 0 => ~gd.twoHandsPresent
           /\ gd.twoHandsPresent => lastCall.n >= 2

\* C28: each emitted swipe causes at most one pattern change: under any
\* interleaving of detection callbacks (the detector pausing or stopping
\* after a swipe included) and poll ticks, the pattern changes the poll has
\* made never outnumber the swipes the callbacks have emitted.
C28_OneChangePerSwipe == swipes.retargets <= swipes.emitted

\* C29: a hand that appears emits no swipe: the callback that reports a hand
\* when none was present (the first hand seen, or a hand that comes back)
\* leaves swipeDirection null, at whatever wrist-x the hand appears.
C29_NoSwipeOnAppearance ==
    [][\A results \in SwipeResults :
           (~gd.handPresent /\ HasHands(results) /\ processResults(results))
               => gd'.swipeDirection = "null"]_vars

\* C30: after the hand is lost the pinch returns to rest: once the callbacks
\* report no hand the pinch target is 0, and when they have gone on
\* reporting none the smoothed pinch the renderer gets is within epsilon of
\* 0, whatever the pinch was when the hand disappeared.  (A callback with no
\* hand writes no pinch target, so the target that is there after the first
\* of them is the one that is there after all of them.)
C30_PinchReturnsToRest ==
    /\ (callbacks > 0 /\ ~gd.handPresent) => gd.targetPinch = 0
    /\ (callbacks = MaxCallbacks + MaxHeld /\ ~gd.handPresent)
           => Near(getGestureState.pinch, 0)

\* The button after and the button before, around the ends of the row.
Following(index) == IF index = Len(BUTTONS) - 1 THEN 0 ELSE index + 1
Preceding(index) == IF index = 0 THEN Len(BUTTONS) - 1 ELSE index - 1

\* A poll that consumed the swipe it found.
Consumed ==
    /\ \E seed \in Seeds : swipePoll(seed)
    /\ lastCall'.op = "swipePoll" /\ lastCall'.n = 1

\* C31: a consumed 'right' swipe selects the button (active + 1) mod n and a
\* consumed 'left' swipe the button (active - 1 + n) mod n, around both ends;
\* after it exactly one button is active and setPattern was called with that
\* button's pattern; so n consumed swipes of one direction in a row are back
\* at the selection they started from.
C31_SwipeCycles ==
    /\ [](run.length = Len(BUTTONS) => activeButtons = run.start)
    /\ [][Consumed =>
              /\ activeIndex' = IF gd.swipeDirection = "right"
                                THEN Following(activeIndex)
                                ELSE Preceding(activeIndex)
              /\ activeButtons' = {activeIndex'}
              /\ Cardinality(activeButtons') = 1
              /\ lastCall'.name = BUTTONS[activeIndex' + 1]
              /\ currentPattern' = BUTTONS[activeIndex' + 1]]_vars

\* Three swipes to the left consumed in a row from the first button: around
\* the lower end and back.
C31_Witness ==
    /\ run = [swipe |-> "left", length |-> Len(BUTTONS), start |-> {0}]
    /\ activeButtons = {0}
    /\ lastCall = [op |-> "swipePoll", name |-> "sphere", n |-> 1]
    /\ swipes.retargets = Len(BUTTONS)

\* The cell of index i in a lattice of side k, by integer division and
\* remainder.
DivMod(i, k) ==
    [x |-> Number(i % k, 0),
     y |-> Number((i \div k) % k, 0),
     z |-> Number(i \div (k * k), 0)]

\* 0 <= c / perSide < 1, which puts (c / perSide - 0.5) * size into
\* [-size / 2, size / 2).
InCube(c, side) == ~Less(c, Number(0, 0)) /\ Less(c, side)

Cell(cell) == [x |-> cell.x, y |-> cell.y, z |-> cell.z]

\* C32: for a total k^3 the cube generator decomposes the index into
\* (i mod k, floor(i / k) mod k, floor(i / k^2)) and maps the indices
\* 0..k^3 - 1 one-to-one onto the cells of the k x k x k lattice, every
\* coordinate in [-size / 2, size / 2).
C32_CubeLattice ==
    LET k == perSide(lattice.total)
        n == Len(lattice.cells)
    IN  lattice # NoLattice =>
            /\ \A i \in 1..n :
                   /\ Cell(lattice.cells[i]) = DivMod(i - 1, k)
                   /\ \A c \in {lattice.cells[i].x, lattice.cells[i].y,
                                 lattice.cells[i].z} :
                          InCube(c, lattice.cells[i].perSide)
            /\ \A i, j \in 1..n :
                   Cell(lattice.cells[i]) = Cell(lattice.cells[j]) => i = j
            /\ n = lattice.total =>
                   {Cell(lattice.cells[i]) : i \in 1..n}
                       = {DivMod(i, k) : i \in 0..(lattice.total - 1)}

\* The same with a Math.cbrt that returns the root of a perfect cube exactly.
C32_ExactRoot == lattice.err = 0 => C32_CubeLattice

====
